---- MODULE Spec2Model ----
(***************************************************************************)
(* A model of the reliability layer, the agent executors and the plan      *)
(* schedulers of the a2a-autoscaling repository.                           *)
(*                                                                         *)
(*   SpecCB    src/src/common/reliability.py        CircuitBreaker         *)
(*   SpecEx    src/src/agents/*/agent*.py           AgentExecutor.execute  *)
(*   SpecOr    src/streamlit_a2a_app.py             IntelligentOrchestrator*)
(*   SpecSm    src/src/clients/smart_routing_client.py SmartRoutingClient  *)
(***************************************************************************)
EXTENDS Integers, Sequences, FiniteSets, TLC

(***************************************************************************)
(* Bounds of the model.                                                    *)
(***************************************************************************)
MaxCalls == 2
MaxTime == 3
MaxThreshold == 2
MaxTimeout == 2
MaxFailures == 3
MaxExecs == 1
MaxSteps == 2
MaxChecks == 3
MaxReqs == 3
MaxMsgs == 2
MaxLimit == 2
MaxConvs == 3
MaxMessages == 4
MaxEndpoints == 3

VARIABLES
    \* ---- CircuitBreaker (reliability.py) ----
    state,              \* CircuitBreaker.state
    failure_count,      \* CircuitBreaker.failure_count
    last_failure_time,  \* CircuitBreaker.last_failure_time (NoTime for None)
    failure_threshold,  \* CircuitBreakerConfig.failure_threshold
    recovery_timeout,   \* CircuitBreakerConfig.recovery_timeout
    now,                \* time.time()
    callpc,             \* position of every concurrent use of `async with call()`
    observed,           \* the state each use found the breaker in when it ended
    raised,             \* the exception the wrapped call of each use raised
    \* ---- AgentExecutor.execute (agents/*) ----
    ex_kind,            \* which executor class runs the request
    ex_query,           \* context.get_user_input() is non-empty
    ex_current,         \* context.current_task is set
    ex_stream,          \* the items self.agent.stream(...) yields
    ex_pos,             \* items consumed by the async for
    ex_pc,              \* position of execute
    task_state,         \* TaskState of the request's task ("none": no task)
    events,             \* what execute has enqueued on the event queue
    ex_cancel,          \* what cancel did for the task ("none": not invoked)
    \* ---- IntelligentOrchestrator (streamlit_a2a_app.py) ----
    or_query,           \* the keyword class of the user's query
    or_clients,         \* keys of agent_clients
    or_plan,            \* ExecutionPlan: [steps, execution_type]
    or_pc,              \* position of send_message_with_orchestration
    or_i,               \* loop index of execute_plan
    or_results,         \* results: agent -> outcome ("absent": no key)
    or_keys,            \* keys of results in insertion order
    or_executed,        \* executed_steps
    or_tasks,           \* tasks of the parallel branch: [agent, step, out]
    or_dispatched,      \* messages sent to agents: [step, ctx]
    or_llm,             \* what the last call of llm_client.complete met
    or_final,           \* what synthesize_response returned
    \* ---- SmartRoutingClient (smart_routing_client.py) ----
    sm_plan,            \* ExecutionPlan: [steps, execution_type]
    sm_pc,              \* position of smart_execute / _execute_plan
    sm_i,               \* index of the sequential loop
    sm_results,         \* results: the list _execute_plan returns
    sm_step_results,    \* step_results: step number -> outcome
    sm_completed,       \* completed_steps
    sm_ready,           \* ready_steps / tasks of the round (plan indices)
    sm_running,         \* outcome of every coroutine of the round
    sm_dispatched,      \* calls of _simulate_agent_execution: [step, seen]
    \* ---- A2AAgentClient (streamlit_a2a_app.py) ----
    agent_card,         \* A2AAgentClient.agent_card is cached
    tr_pc,              \* position of _send_message_async
    tr_response,        \* what the POST came back with
    tr_result,          \* the dictionary _send_message_async returned
    \* ---- HealthChecker (reliability.py) ----
    hc_n,               \* number of entries of HealthChecker.checks
    hc_pc,              \* position of check_health
    hc_outcomes,        \* what each check function of this run came to
    hc_overall,         \* overall_status
    hc_returned,        \* status of the HealthCheckResult returned ("none": not yet)
    \* ---- AgentMetrics (metrics.py) ----
    mt_pc,              \* where every request is with respect to track_request_duration
    active_tasks,       \* ACTIVE_TASKS of the agent
    requests_total,     \* REQUEST_COUNT of the agent by status
    mt_counted,         \* the increments of REQUEST_COUNT every request made
    \* ---- StreamingConversationClient (streaming_conversation_client.py) ----
    st_router,          \* agent_router is set
    st_session,         \* the session is in active_sessions
    st_queue,           \* the asyncio.Queue of the session
    st_last_agent,      \* session_data["last_agent"]
    st_pc,              \* position of stream_chat
    st_delivered,       \* the events stream_chat has yielded for the message
    st_calls,           \* uses of stream_chat so far
    \* ---- ConversationMemory / ConversationalA2AClient (conversational_client.py) ----
    cm_max_conversations,\* ConversationMemory.max_conversations
    cm_max_messages,    \* ConversationMemory.max_messages_per_conversation
    cm_conversations,   \* ConversationMemory.conversations, in insertion order
    cm_active,          \* active_conversations: user -> conversation id
    cm_next_conv,       \* the next conversation id (uuid4)
    cm_next_msg,        \* the next message id (uuid4)
    cm_now,             \* datetime.now()
    cm_pc,              \* position of chat, per user
    cm_chat_conv,       \* conversation_id of the chat in progress, per user
    cm_not_found,       \* the last call of the user raised "Conversation ... not found"
    \* ---- AgentDiscovery (agent_discovery.py) / initialize_agents (streamlit_a2a_app.py) ----
    ds_impl,            \* which discovery runs
    ds_pc,              \* position of the discovery
    ds_cards,           \* what get_agent_card came to, per endpoint
    ds_status,          \* status of the entry recorded per endpoint
    ds_clients          \* keys of agent_clients (initialize_agents)

cbVars == <<state, failure_count, last_failure_time, failure_threshold,
            recovery_timeout, now, callpc, observed, raised>>

exVars == <<ex_kind, ex_query, ex_current, ex_stream, ex_pos, ex_pc,
            task_state, events, ex_cancel>>

orVars == <<or_query, or_clients, or_plan, or_pc, or_i, or_results, or_keys,
            or_executed, or_tasks, or_dispatched, or_llm, or_final>>

smVars == <<sm_plan, sm_pc, sm_i, sm_results, sm_step_results, sm_completed,
            sm_ready, sm_running, sm_dispatched>>

trVars == <<agent_card, tr_pc, tr_response, tr_result>>

hcVars == <<hc_n, hc_pc, hc_outcomes, hc_overall, hc_returned>>

mtVars == <<mt_pc, active_tasks, requests_total, mt_counted>>

stVars == <<st_router, st_session, st_queue, st_last_agent, st_pc, st_delivered, st_calls>>

cmVars == <<cm_max_conversations, cm_max_messages, cm_conversations, cm_active, cm_next_conv, cm_next_msg, cm_now, cm_pc, cm_chat_conv, cm_not_found>>

dsVars == <<ds_impl, ds_pc, ds_cards, ds_status, ds_clients>>

vars == <<state, failure_count, last_failure_time, failure_threshold,
          recovery_timeout, now, callpc, observed, raised,
          ex_kind, ex_query, ex_current, ex_stream, ex_pos, ex_pc,
          task_state, events, ex_cancel,
          or_query, or_clients, or_plan, or_pc, or_i, or_results, or_keys,
          or_executed, or_tasks, or_dispatched, or_llm, or_final,
          sm_plan, sm_pc, sm_i, sm_results, sm_step_results, sm_completed,
          sm_ready, sm_running, sm_dispatched,
          agent_card, tr_pc, tr_response, tr_result,
          hc_n, hc_pc, hc_outcomes, hc_overall, hc_returned,
          mt_pc, active_tasks, requests_total, mt_counted,
          st_router, st_session, st_queue, st_last_agent, st_pc, st_delivered, st_calls,
          cm_max_conversations, cm_max_messages, cm_conversations, cm_active, cm_next_conv, cm_next_msg, cm_now, cm_pc, cm_chat_conv, cm_not_found,
          ds_impl, ds_pc, ds_cards, ds_status, ds_clients>>

\* What the steps of one component leave alone: the other components.
CBFrame == UNCHANGED <<exVars, orVars, smVars, trVars, hcVars, mtVars, stVars, cmVars, dsVars>>
ExFrame == UNCHANGED <<cbVars, orVars, smVars, trVars, hcVars, mtVars, stVars, cmVars, dsVars>>
OrFrame == UNCHANGED <<cbVars, exVars, smVars, trVars, hcVars, mtVars, stVars, cmVars, dsVars>>
SmFrame == UNCHANGED <<cbVars, exVars, orVars, trVars, hcVars, mtVars, stVars, cmVars, dsVars>>
TrFrame == UNCHANGED <<cbVars, exVars, orVars, smVars, hcVars, mtVars, stVars, cmVars, dsVars>>
HcFrame == UNCHANGED <<cbVars, exVars, orVars, smVars, trVars, mtVars, stVars, cmVars, dsVars>>
MtFrame == UNCHANGED <<cbVars, exVars, orVars, smVars, trVars, hcVars, stVars, cmVars, dsVars>>
StFrame == UNCHANGED <<cbVars, exVars, orVars, smVars, trVars, hcVars, mtVars, cmVars, dsVars>>
CmFrame == UNCHANGED <<cbVars, exVars, orVars, smVars, trVars, hcVars, mtVars, stVars, dsVars>>
DsFrame == UNCHANGED <<cbVars, exVars, orVars, smVars, trVars, hcVars, mtVars, stVars, cmVars>>

(***************************************************************************)
(* CircuitBreaker                                                          *)
(***************************************************************************)
CLOSED == "closed"
OPEN == "open"
HALF_OPEN == "half_open"
CircuitState == {CLOSED, OPEN, HALF_OPEN}

NoTime == -1

Calls == 1..MaxCalls

\* Positions of one use of the context manager: not entered, suspended at the
\* yield (the wrapped call is running), and the four ways it ends.
CallPcs == {"idle", "running", "rejected", "succeeded", "failed", "escaped"}

\* CircuitBreaker.__init__, for every configuration with a positive threshold
\* and timeout (the repository configures 3/30.0 and 5/60.0).
CBStart ==
    /\ state = CLOSED
    /\ failure_count = 0
    /\ last_failure_time = NoTime
    /\ failure_threshold \in 1..MaxThreshold
    /\ recovery_timeout \in 1..MaxTimeout
    /\ now = 0
    /\ callpc = [c \in Calls |-> "idle"]
    /\ observed = [c \in Calls |-> "none"]
    /\ raised = [c \in Calls |-> "none"]

\* What the wrapped call can raise: a timeout (asyncio.TimeoutError), a
\* transport error (ConnectionError), and the CancelledError thrown into a
\* cancelled coroutine.
ExceptionKinds == {"TimeoutError", "ConnectionError", "CancelledError"}

\* The classes an exception is an instance of: timeouts and connection errors
\* derive from Exception, CancelledError from BaseException only.
Ancestors(exc) ==
    CASE exc = "TimeoutError" -> {"TimeoutError", "Exception", "BaseException"}
      [] exc = "ConnectionError" -> {"ConnectionError", "OSError", "Exception", "BaseException"}
      [] exc = "CancelledError" -> {"CancelledError", "BaseException"}

\* A plausible slip: the breaker catches BaseException.
expected_exception_types_Base == {"BaseException"}

\* CircuitBreakerConfig.expected_exception_types: (Exception,), which
\* create_circuit_breaker never overrides.
expected_exception_types == {"Exception"}

\* except self.config.expected_exception_types: the clause matches exc.
Caught(exc) == Ancestors(exc) \cap expected_exception_types # {}

\* The locks of the breaker that use c of the context manager holds:
\* __init__ creates no lock and no method acquires one.
LocksHeld(c) == {}

\* A plausible slip: the comparison with recovery_timeout is strict.
ShouldAttemptReset_Strict ==
    IF last_failure_time = NoTime
    THEN TRUE
    ELSE now - last_failure_time > recovery_timeout

\* A plausible slip: the age of the failure is not computed.
ShouldAttemptReset_NoAge ==
    IF last_failure_time = NoTime
    THEN TRUE
    ELSE now >= recovery_timeout

\* CircuitBreaker._should_attempt_reset
ShouldAttemptReset ==
    IF last_failure_time = NoTime
    THEN TRUE
    ELSE now - last_failure_time >= recovery_timeout

\* CircuitBreaker.call, up to the yield: an open breaker either moves to
\* half_open or raises CircuitBreakerOpenException before the try block.
CallEnter(c) ==
    /\ CBFrame
    /\ callpc[c] = "idle"
    /\ IF state = OPEN
       THEN IF ShouldAttemptReset
            THEN /\ state' = HALF_OPEN
                 /\ callpc' = [callpc EXCEPT ![c] = "running"]
            ELSE /\ state' = state
                 /\ callpc' = [callpc EXCEPT ![c] = "rejected"]
       ELSE /\ state' = state
            /\ callpc' = [callpc EXCEPT ![c] = "running"]
    /\ observed' = [observed EXCEPT ![c] = "none"]
    /\ UNCHANGED <<failure_count, last_failure_time, failure_threshold,
                   recovery_timeout, now, raised>>

\* A plausible slip: only a half_open breaker is reset.
OnSuccess_OnlyHalfOpen ==
    /\ failure_count' = IF state = HALF_OPEN THEN 0 ELSE failure_count
    /\ state' = IF state = HALF_OPEN THEN CLOSED ELSE state

\* CircuitBreaker._on_success
OnSuccess ==
    /\ failure_count' = 0
    /\ state' = CLOSED

\* A plausible slip: the breaker opens only on the failure that reaches the
\* threshold exactly.
OnFailure_Exactly ==
    /\ failure_count' = failure_count + 1
    /\ last_failure_time' = now
    /\ state' = IF failure_count + 1 = failure_threshold THEN OPEN ELSE state

\* A plausible slip: the comparison with the threshold is strict.
OnFailure_Late ==
    /\ failure_count' = failure_count + 1
    /\ last_failure_time' = now
    /\ state' = IF failure_count + 1 > failure_threshold THEN OPEN ELSE state

\* CircuitBreaker._on_failure
OnFailure ==
    /\ failure_count' = failure_count + 1
    /\ last_failure_time' = now
    /\ state' = IF failure_count + 1 >= failure_threshold THEN OPEN ELSE state

\* CircuitBreaker.call after the yield, the wrapped call returned.
CallSucceed(c) ==
    /\ CBFrame
    /\ callpc[c] = "running"
    /\ OnSuccess
    /\ callpc' = [callpc EXCEPT ![c] = "succeeded"]
    /\ observed' = [observed EXCEPT ![c] = state]
    /\ UNCHANGED <<last_failure_time, failure_threshold, recovery_timeout, now,
                   raised>>

\* CircuitBreaker.call after the yield, the wrapped call raised one of
\* config.expected_exception_types.
CallFail(c) ==
    /\ CBFrame
    /\ callpc[c] = "running"
    /\ failure_count < MaxFailures
    /\ \E exc \in ExceptionKinds :
          /\ Caught(exc)
          /\ raised' = [raised EXCEPT ![c] = exc]
    /\ OnFailure
    /\ callpc' = [callpc EXCEPT ![c] = "failed"]
    /\ observed' = [observed EXCEPT ![c] = state]
    /\ UNCHANGED <<failure_threshold, recovery_timeout, now>>

\* CircuitBreaker.call after the yield, the wrapped call raised something
\* that is no instance of config.expected_exception_types (a cancellation):
\* neither handler runs.
CallEscape(c) ==
    /\ CBFrame
    /\ callpc[c] = "running"
    /\ \E exc \in ExceptionKinds :
          /\ ~Caught(exc)
          /\ raised' = [raised EXCEPT ![c] = exc]
    /\ callpc' = [callpc EXCEPT ![c] = "escaped"]
    /\ observed' = [observed EXCEPT ![c] = state]
    /\ UNCHANGED <<state, failure_count, last_failure_time, failure_threshold,
                   recovery_timeout, now>>

\* The caller has seen the outcome; the wrapper may be called again.
CallReturn(c) ==
    /\ CBFrame
    /\ callpc[c] \in {"rejected", "succeeded", "failed", "escaped"}
    /\ callpc' = [callpc EXCEPT ![c] = "idle"]
    /\ observed' = [observed EXCEPT ![c] = "none"]
    /\ raised' = [raised EXCEPT ![c] = "none"]
    /\ UNCHANGED <<state, failure_count, last_failure_time, failure_threshold,
                   recovery_timeout, now>>

\* time.time() advances.
Tick ==
    /\ CBFrame
    /\ now < MaxTime
    /\ now' = now + 1
    /\ UNCHANGED <<state, failure_count, last_failure_time, failure_threshold,
                   recovery_timeout, callpc, observed, raised>>

CBNext ==
    \/ \E c \in Calls : CallEnter(c)
    \/ \E c \in Calls : CallSucceed(c)
    \/ \E c \in Calls : CallFail(c)
    \/ \E c \in Calls : CallEscape(c)
    \/ \E c \in Calls : CallReturn(c)
    \/ Tick

(***************************************************************************)
(* AgentExecutor.execute                                                   *)
(***************************************************************************)
Execs == 1..MaxExecs

ExecutorKinds == {"base", "calculator", "move_orchestrator"}

\* Items of the agents' generators: neither flag set, require_user_input,
\* is_task_complete.
WORKING_ITEM == "working_item"
INPUT_ITEM == "input_item"
COMPLETE_ITEM == "complete_item"

\* What the stream() of each agent can yield.
\* BaseAgent.stream: the one result of process_query, always complete.
\* CalculatorAgent.stream: a progress item, then completed, or
\*   require_user_input for the statuses input_required and error.
\* MoveOrchestrationAgent.stream: the result, or require_user_input on error.
AgentStreams(kind) ==
    CASE kind = "base" -> {<<COMPLETE_ITEM>>}
      [] kind = "calculator" -> {<<WORKING_ITEM, COMPLETE_ITEM>>,
                                 <<WORKING_ITEM, INPUT_ITEM>>}
      [] kind = "move_orchestrator" -> {<<COMPLETE_ITEM>>, <<INPUT_ITEM>>}

\* TaskState values the executors use, and "none" for a request without task.
SUBMITTED == "submitted"
WORKING == "working"
INPUT_REQUIRED == "input_required"
COMPLETED == "completed"
FAILED == "failed"
CANCELED == "canceled"
TerminalStates == {COMPLETED, FAILED, CANCELED}

\* Events on the queue that are no status updates.
TASK_EVENT == "task"
MESSAGE_EVENT == "message"
ARTIFACT_EVENT == "artifact"

\* A request as the server hands it to execute: with or without input text,
\* for a new task or for a task that exists already (resumed after
\* input_required, or created by the request handler).
ExStartState ==
    /\ ex_kind \in [Execs -> ExecutorKinds]
    /\ ex_query \in [Execs -> BOOLEAN]
    /\ ex_current \in [Execs -> BOOLEAN]
    /\ ex_stream \in [Execs -> UNION {AgentStreams(k) : k \in ExecutorKinds}]
    /\ \A e \in Execs : ex_stream[e] \in AgentStreams(ex_kind[e])
    /\ task_state \in [Execs -> {"none", SUBMITTED, INPUT_REQUIRED}]
    /\ \A e \in Execs : (task_state[e] = "none") <=> ~ex_current[e]
    /\ ex_pos = [e \in Execs |-> 0]
    /\ ex_pc = [e \in Execs |-> "start"]
    /\ events = [e \in Execs |-> <<>>]
    /\ ex_cancel = [e \in Execs |-> "none"]

Emit(e, ev) == events' = [events EXCEPT ![e] = Append(@, ev)]

\* execute up to the async for.
\*  BaseAgentExecutor / MoveOrchestrationExecutor: an empty query enqueues a
\*    text message and returns.
\*  CalculatorAgentExecutor: _validate_request fails on an empty input and
\*    execute raises InvalidParamsError.
\*  All: a request without current task gets new_task(...), which is enqueued.
ExBegin(e) ==
    /\ ExFrame
    /\ ex_pc[e] = "start"
    /\ IF ~ex_query[e]
       THEN IF ex_kind[e] = "calculator"
            THEN /\ ex_pc' = [ex_pc EXCEPT ![e] = "raised"]
                 /\ UNCHANGED <<events, task_state>>
            ELSE /\ Emit(e, MESSAGE_EVENT)
                 /\ ex_pc' = [ex_pc EXCEPT ![e] = "returned"]
                 /\ UNCHANGED task_state
       ELSE /\ IF ~ex_current[e]
               THEN /\ Emit(e, TASK_EVENT)
                    /\ task_state' = [task_state EXCEPT ![e] = SUBMITTED]
               ELSE UNCHANGED <<events, task_state>>
            /\ ex_pc' = [ex_pc EXCEPT ![e] = "loop"]
    /\ UNCHANGED <<ex_kind, ex_query, ex_current, ex_stream, ex_pos, ex_cancel>>

\* A plausible slip: the break after the completion is missing.
AfterComplete_NoBreak == "loop"

\* Where execute goes after updater.complete(): the break leaves the loop and
\* the function returns.
AfterComplete == "returned"

\* A plausible slip: the break after the input_required status is missing.
AfterInputRequired_NoBreak == "loop"

\* Where execute goes after the input_required status: break.
AfterInputRequired == "returned"

\* A plausible slip: the result is sent as a text message, not as an artifact.
CompleteItemEvent_Message == MESSAGE_EVENT

\* What the else branch enqueues before updater.complete(): add_artifact.
CompleteItemEvent == ARTIFACT_EVENT

\* One turn of the async for: the next item of the stream, or the end of the
\* stream, which ends the loop and the function.
ExItem(e) ==
    /\ ExFrame
    /\ ex_pc[e] = "loop"
    /\ IF ex_pos[e] >= Len(ex_stream[e])
       THEN /\ ex_pc' = [ex_pc EXCEPT ![e] = "returned"]
            /\ UNCHANGED <<ex_pos, events, task_state>>
       ELSE LET item == ex_stream[e][ex_pos[e] + 1] IN
            /\ ex_pos' = [ex_pos EXCEPT ![e] = @ + 1]
            /\ CASE item = WORKING_ITEM ->
                     /\ Emit(e, WORKING)
                     /\ task_state' = [task_state EXCEPT ![e] = WORKING]
                     /\ UNCHANGED ex_pc
                 [] item = INPUT_ITEM ->
                     /\ Emit(e, INPUT_REQUIRED)
                     /\ task_state' = [task_state EXCEPT ![e] = INPUT_REQUIRED]
                     /\ ex_pc' = [ex_pc EXCEPT ![e] = AfterInputRequired]
                 [] item = COMPLETE_ITEM ->
                     /\ Emit(e, CompleteItemEvent)
                     /\ ex_pc' = [ex_pc EXCEPT ![e] = "complete"]
                     /\ UNCHANGED task_state
    /\ UNCHANGED <<ex_kind, ex_query, ex_current, ex_stream, ex_cancel>>

\* updater.complete() after add_artifact, then break.
ExComplete(e) ==
    /\ ExFrame
    /\ ex_pc[e] = "complete"
    /\ Emit(e, COMPLETED)
    /\ task_state' = [task_state EXCEPT ![e] = COMPLETED]
    /\ ex_pc' = [ex_pc EXCEPT ![e] = AfterComplete]
    /\ UNCHANGED <<ex_kind, ex_query, ex_current, ex_stream, ex_pos, ex_cancel>>

\* Something awaited inside the try block raises an Exception: the next item
\* of the generator, or an update on the event queue.
ExRaise(e) ==
    /\ ExFrame
    /\ ex_pc[e] \in {"loop", "complete"}
    /\ ex_pc' = [ex_pc EXCEPT ![e] = "except"]
    /\ UNCHANGED <<ex_kind, ex_query, ex_current, ex_stream, ex_pos,
                   task_state, events, ex_cancel>>

\* Whether the except block has a task to update.
\*  BaseAgentExecutor / MoveOrchestrationExecutor: context.current_task, which
\*    is None for a task this call created itself.
\*  CalculatorAgentExecutor: the updater made before the try block.
HandlerHasTask(e) ==
    IF ex_kind[e] = "calculator" THEN TRUE ELSE ex_current[e]

\* The except block: a failed status marked final when there is a task to
\* update, then ServerError(InternalError).
ExExcept(e) ==
    /\ ExFrame
    /\ ex_pc[e] = "except"
    /\ IF HandlerHasTask(e)
       THEN /\ Emit(e, FAILED)
            /\ task_state' = [task_state EXCEPT ![e] = FAILED]
       ELSE UNCHANGED <<events, task_state>>
    /\ ex_pc' = [ex_pc EXCEPT ![e] = "raised"]
    /\ UNCHANGED <<ex_kind, ex_query, ex_current, ex_stream, ex_pos, ex_cancel>>

\* What cancel does, by executor class.
\*  BaseAgentExecutor / MoveOrchestrationExecutor: enqueue a text message.
\*  CalculatorAgentExecutor: raise ServerError(UnsupportedOperationError).
CancelOutcome(kind) == IF kind = "calculator" THEN "unsupported" ELSE "message"

\* cancel(context, event_queue) for the task of request e, at any moment after
\* the task exists: no status update is made and the task keeps its state.
ExCancel(e) ==
    /\ ExFrame
    /\ task_state[e] # "none"
    /\ ex_cancel[e] = "none"
    /\ ex_cancel' = [ex_cancel EXCEPT ![e] = CancelOutcome(ex_kind[e])]
    /\ UNCHANGED <<ex_kind, ex_query, ex_current, ex_stream, ex_pos, ex_pc,
                   task_state, events>>

ExNext ==
    \/ \E e \in Execs : ExCancel(e)
    \/ \E e \in Execs : ExBegin(e)
    \/ \E e \in Execs : ExItem(e)
    \/ \E e \in Execs : ExComplete(e)
    \/ \E e \in Execs : ExRaise(e)
    \/ \E e \in Execs : ExExcept(e)

(***************************************************************************)
(* IntelligentOrchestrator                                                 *)
(***************************************************************************)
\* Agent ids of AGENT_ENDPOINTS the model keeps, and an id that is no key of
\* it (the planning LLM is free to name one).
Catalog == {"base", "calculator"}
UnknownAgent == "ghost"
AgentNames == Catalog \cup {UnknownAgent}

\* ExecutionStep: the task text is the step's own; dependencies are agent ids.
ExecutionStep == [agent : AgentNames, dependencies : SUBSET Catalog]

ExecutionTypes == {"sequential", "parallel", "hybrid"}

StepSeqs == UNION {[1..n -> ExecutionStep] : n \in 0..MaxSteps}

\* ExecutionPlan
ExecutionPlan == [steps : StepSeqs, execution_type : ExecutionTypes]

NoPlan == [steps |-> <<>>, execution_type |-> "none"]

\* Keyword classes of a query: one that holds a calculator keyword, one that
\* holds no keyword of any agent.
Queries == {"calculate", "hello"}

\* IntelligentOrchestrator._simple_routing_fallback
SimpleRoutingFallback(q) ==
    [steps |-> <<[agent |-> IF q = "calculate" THEN "calculator" ELSE "base",
                  dependencies |-> {}]>>,
     execution_type |-> "sequential"]

\* AzureOpenAIClient._simple_routing_fallback, which complete() applies to
\* the prompt it was given when there is no client or the API call raises.
\* The planning prompt holds the agent descriptions ("Mathematical
\* calculations", "math", "numbers"), so the first keyword test succeeds
\* whatever the user's query is.
LLMRoutingFallback ==
    [steps |-> <<[agent |-> "calculator", dependencies |-> {}]>>,
     execution_type |-> "sequential"]

\* What a call of llm_client.complete can meet.
\*  "json": the API answers with a JSON plan (or, for a synthesis, a text).
\*  "garbage": the API answers with something json.loads and the step loop
\*    cannot read; create_execution_plan raises into its except block.
\*  "unavailable": no client, or the API call raises; complete() catches it
\*    and returns the routing fallback's JSON.
LLMOutcomes == {"json", "garbage", "unavailable"}

\* synthesize_response has not returned.
NoResponse == [kind |-> "none", agents |-> <<>>]

\* EnhancedA2AStreamlitClient.__init__ and initialize_agents: a client for
\* every agent of the catalog whose card could be fetched.
OrStartState ==
    /\ or_query \in Queries
    /\ or_clients \in {Catalog, {"calculator"}}
    /\ or_plan = NoPlan
    /\ or_pc = "plan"
    /\ or_i = 0
    /\ or_results = [a \in AgentNames |-> "absent"]
    /\ or_keys = <<>>
    /\ or_executed = {}
    /\ or_tasks = <<>>
    /\ or_dispatched = <<>>
    /\ or_llm = "none"
    /\ or_final = NoResponse

\* create_execution_plan: the plan the LLM's JSON spells, as it is, or the
\* fallback plan when the call or the parsing raises.
CreateExecutionPlan ==
    /\ OrFrame
    /\ or_pc = "plan"
    /\ \E llm \in LLMOutcomes :
          /\ or_llm' = llm
          /\ CASE llm = "json" -> or_plan' \in ExecutionPlan
               [] llm = "garbage" -> or_plan' = SimpleRoutingFallback(or_query)
               [] llm = "unavailable" -> or_plan' = LLMRoutingFallback
    /\ or_pc' = "execute"
    /\ UNCHANGED <<or_query, or_clients, or_i, or_results, or_keys,
                   or_executed, or_tasks, or_dispatched, or_final>>

\* A plausible slip: only successful results are stored.
SetResult_DropFailed(agent, outcome) ==
    /\ or_results' = IF outcome = "ok"
                     THEN [or_results EXCEPT ![agent] = outcome]
                     ELSE or_results
    /\ or_keys' = IF or_results[agent] = "absent" /\ outcome = "ok"
                  THEN Append(or_keys, agent)
                  ELSE or_keys

\* results[agent] = outcome, on a dict that keeps insertion order.
SetResult(agent, outcome) ==
    /\ or_results' = [or_results EXCEPT ![agent] = outcome]
    /\ or_keys' = IF or_results[agent] = "absent"
                  THEN Append(or_keys, agent)
                  ELSE or_keys

\* A plausible slip: the success flag of a dependency's result is not tested.
EnhanceContext_AnyResult(dependencies) ==
    IF dependencies = {} \/ or_keys = <<>>
    THEN {}
    ELSE {d \in dependencies : or_results[d] # "absent"}

\* _enhance_task_with_context: the dependencies whose result goes into the
\* context block (a key of results with success set).
EnhanceContext(dependencies) ==
    IF dependencies = {} \/ or_keys = <<>>
    THEN {}
    ELSE {d \in dependencies : or_results[d] = "ok"}

\* execute_plan, up to the first await.
\*  sequential: the for loop starts.
\*  parallel: a task is created for every step without dependencies whose
\*    agent has a client.
\*  any other execution_type: neither branch runs.
SeqOfSet(S) ==
    LET RECURSIVE Build(_, _)
        Build(i, acc) ==
            IF i > Len(or_plan.steps) THEN acc
            ELSE Build(i + 1, IF i \in S THEN Append(acc, i) ELSE acc)
    IN Build(1, <<>>)

ParallelLaunched ==
    {i \in 1..Len(or_plan.steps) :
        /\ or_plan.steps[i].dependencies = {}
        /\ or_plan.steps[i].agent \in or_clients}

ExecutePlanBegin ==
    /\ OrFrame
    /\ UNCHANGED <<or_llm, or_final>>
    /\ or_pc = "execute"
    /\ or_i' = 1
    /\ CASE or_plan.execution_type = "sequential" ->
              /\ or_pc' = "seq"
              /\ or_tasks' = <<>>
         [] or_plan.execution_type = "parallel" ->
              /\ or_pc' = "par_run"
              /\ or_tasks' = [k \in 1..Cardinality(ParallelLaunched) |->
                                [step |-> SeqOfSet(ParallelLaunched)[k],
                                 agent |-> or_plan.steps[SeqOfSet(ParallelLaunched)[k]].agent,
                                 out |-> "pending"]]
         [] OTHER ->
              /\ or_pc' = "done"
              /\ or_tasks' = <<>>
    /\ UNCHANGED <<or_query, or_clients, or_plan, or_results, or_keys,
                   or_executed, or_dispatched>>

\* Outcomes of A2AAgentClient.send_message: success True or False.
SendOutcomes == {"ok", "fail"}

\* One turn of the sequential loop: warn about missing dependencies, build
\* the task text, send it and store the result under the agent's id, or
\* store "not available" when the agent has no client.
SequentialStep ==
    /\ OrFrame
    /\ UNCHANGED <<or_llm, or_final>>
    /\ or_pc = "seq"
    /\ or_i <= Len(or_plan.steps)
    /\ LET step == or_plan.steps[or_i] IN
       IF step.agent \in or_clients
       THEN /\ \E out \in SendOutcomes : SetResult(step.agent, out)
            /\ or_dispatched' = Append(or_dispatched,
                   [step |-> or_i, ctx |-> EnhanceContext(step.dependencies)])
            /\ or_executed' = or_executed \cup {or_i}
       ELSE /\ SetResult(step.agent, "unavailable")
            /\ UNCHANGED <<or_dispatched, or_executed>>
    /\ or_i' = or_i + 1
    /\ UNCHANGED <<or_query, or_clients, or_plan, or_pc, or_tasks>>

\* The parallel tasks run while execute_plan awaits the first of them: each
\* in creation order, send_message blocking until its reply is there.
ParallelRun ==
    /\ OrFrame
    /\ UNCHANGED <<or_llm, or_final>>
    /\ or_pc = "par_run"
    /\ or_i <= Len(or_tasks)
    /\ \E out \in SendOutcomes :
          or_tasks' = [or_tasks EXCEPT ![or_i].out = out]
    /\ or_dispatched' = Append(or_dispatched,
                               [step |-> or_tasks[or_i].step, ctx |-> {}])
    /\ or_i' = or_i + 1
    /\ UNCHANGED <<or_query, or_clients, or_plan, or_pc, or_results, or_keys,
                   or_executed>>

\* All tasks have run: execute_plan resumes in its second loop.
ParallelResume ==
    /\ OrFrame
    /\ UNCHANGED <<or_llm, or_final>>
    /\ or_pc = "par_run"
    /\ or_i > Len(or_tasks)
    /\ or_pc' = "par_collect"
    /\ or_i' = 1
    /\ UNCHANGED <<or_query, or_clients, or_plan, or_results, or_keys,
                   or_executed, or_tasks, or_dispatched>>

\* One turn of the second loop of the parallel branch.
ParallelCollect ==
    /\ OrFrame
    /\ UNCHANGED <<or_llm, or_final>>
    /\ or_pc = "par_collect"
    /\ or_i <= Len(or_tasks)
    /\ SetResult(or_tasks[or_i].agent, or_tasks[or_i].out)
    /\ or_i' = or_i + 1
    /\ UNCHANGED <<or_query, or_clients, or_plan, or_pc, or_executed,
                   or_tasks, or_dispatched>>

\* return results
ExecutePlanReturn ==
    /\ OrFrame
    /\ UNCHANGED <<or_llm, or_final>>
    /\ \/ or_pc = "seq" /\ or_i > Len(or_plan.steps)
       \/ or_pc = "par_collect" /\ or_i > Len(or_tasks)
    /\ or_pc' = "done"
    /\ UNCHANGED <<or_query, or_clients, or_plan, or_i, or_results, or_keys,
                   or_executed, or_tasks, or_dispatched>>

\* The agents of results whose result has success set, in the order of the
\* dict.
RECURSIVE SuccessfulKeys(_)
SuccessfulKeys(keys) ==
    IF keys = <<>> THEN <<>>
    ELSE (IF or_results[Head(keys)] = "ok" THEN <<Head(keys)>> ELSE <<>>)
             \o SuccessfulKeys(Tail(keys))

\* A plausible slip: the single-result shortcut is never taken.
SingleResult_Never == FALSE

\* len(results) == 1
SingleResult == Len(or_keys) = 1

\* synthesize_response.
\*  One result: its response text as it is, or "Error: ..." when it failed.
\*  Otherwise: whatever llm_client.complete returns for the synthesis prompt,
\*    the model's text or, with no client or a failing API call, the JSON of
\*    the routing fallback. complete() raises nothing, so the except block
\*    with the concatenation is never entered.
SynthesizeResponse ==
    /\ OrFrame
    /\ or_pc = "done"
    /\ IF SingleResult
       THEN /\ or_final' = [kind |-> IF or_results[or_keys[1]] = "ok"
                                     THEN "verbatim" ELSE "error",
                            agents |-> or_keys]
            /\ or_llm' = or_llm
       ELSE \E llm \in {"json", "unavailable"} :
               /\ or_llm' = llm
               /\ or_final' = [kind |-> IF llm = "json" THEN "llm_text"
                                        ELSE "routing_json",
                               agents |-> or_keys]
    /\ or_pc' = "synthesized"
    /\ UNCHANGED <<or_query, or_clients, or_plan, or_i, or_results, or_keys,
                   or_executed, or_tasks, or_dispatched>>

OrNext ==
    \/ SynthesizeResponse
    \/ CreateExecutionPlan
    \/ ExecutePlanBegin
    \/ SequentialStep
    \/ ParallelRun
    \/ ParallelResume
    \/ ParallelCollect
    \/ ExecutePlanReturn

(***************************************************************************)
(* SmartRoutingClient                                                      *)
(***************************************************************************)
StepNums == 1..MaxSteps

\* A step of a plan: its "step" number, its "depends_on" list, and whether
\* it has the "agent" and "query" keys _execute_step reads.
SmStep == [step : StepNums, depends_on : SUBSET StepNums, wellformed : BOOLEAN]

SmStepSeqs == UNION {[1..n -> SmStep] : n \in 0..MaxSteps}

\* ExecutionPlan of smart_routing_client.py
SmExecutionPlan == [steps : SmStepSeqs, execution_type : ExecutionTypes]

\* smart_execute before the plan is made.
SmStartState ==
    /\ sm_plan = NoPlan
    /\ sm_pc = "plan"
    /\ sm_i = 0
    /\ sm_results = <<>>
    /\ sm_step_results = [n \in StepNums |-> "absent"]
    /\ sm_completed = {}
    /\ sm_ready = <<>>
    /\ sm_running = <<>>
    /\ sm_dispatched = <<>>

\* ExecutionPlanner.create_execution_plan: _create_multi_agent_plan takes the
\* steps of the LLM's JSON as they are; the other paths build one step.
SmCreatePlan ==
    /\ SmFrame
    /\ sm_pc = "plan"
    /\ sm_plan' \in SmExecutionPlan
    /\ sm_pc' = "execute"
    /\ UNCHANGED <<sm_i, sm_results, sm_step_results, sm_completed, sm_ready,
                   sm_running, sm_dispatched>>

\* The plan indices of S in plan order.
RECURSIVE SmInOrder(_, _)
SmInOrder(S, i) ==
    IF i > Len(sm_plan.steps) THEN <<>>
    ELSE (IF i \in S THEN <<i>> ELSE <<>>) \o SmInOrder(S, i + 1)

\* _execute_step: success for a step with its keys, the except branch for one
\* without.
StepOutcome(i) == IF sm_plan.steps[i].wellformed THEN "ok" ELSE "fail"

\* The result dict of _execute_step.
StepResult(i) == [step |-> sm_plan.steps[i].step,
                  success |-> sm_plan.steps[i].wellformed,
                  error |-> IF sm_plan.steps[i].wellformed THEN "none" ELSE "exception"]

\* The call of _simulate_agent_execution a well-formed step makes, with the
\* step numbers whose results were there when it was made.
Dispatch(i) ==
    IF sm_plan.steps[i].wellformed
    THEN <<[step |-> i, seen |-> {n \in StepNums : sm_step_results[n] # "absent"}]>>
    ELSE <<>>

RECURSIVE DispatchAll(_, _)
DispatchAll(seq, k) ==
    IF k > Len(seq) THEN <<>> ELSE Dispatch(seq[k]) \o DispatchAll(seq, k + 1)

\* The steps without "depends_on" that the parallel branch runs.
SmParallelTasks ==
    SmInOrder({i \in 1..Len(sm_plan.steps) : sm_plan.steps[i].depends_on = {}}, 1)

\* _execute_plan up to its first await.
SmExecuteBegin ==
    /\ SmFrame
    /\ sm_pc = "execute"
    /\ CASE sm_plan.execution_type = "sequential" ->
              /\ sm_pc' = "seq"
              /\ sm_i' = 1
              /\ UNCHANGED <<sm_ready, sm_running, sm_dispatched>>
         [] sm_plan.execution_type = "parallel" ->
              /\ sm_i' = sm_i
              /\ IF SmParallelTasks = <<>>
                 THEN /\ sm_pc' = "done"
                      /\ UNCHANGED <<sm_ready, sm_running, sm_dispatched>>
                 ELSE /\ sm_pc' = "par_gather"
                      /\ sm_ready' = SmParallelTasks
                      /\ sm_running' = [k \in 1..Len(SmParallelTasks) |-> "running"]
                      /\ sm_dispatched' = sm_dispatched \o DispatchAll(SmParallelTasks, 1)
         [] sm_plan.execution_type = "hybrid" ->
              /\ sm_pc' = "hybrid"
              /\ sm_i' = sm_i
              /\ UNCHANGED <<sm_ready, sm_running, sm_dispatched>>
    /\ UNCHANGED <<sm_plan, sm_results, sm_step_results, sm_completed>>

\* One turn of the sequential loop of _execute_plan.
SmSequentialStep ==
    /\ SmFrame
    /\ sm_pc = "seq"
    /\ sm_i <= Len(sm_plan.steps)
    /\ sm_dispatched' = sm_dispatched \o Dispatch(sm_i)
    /\ sm_results' = Append(sm_results, StepResult(sm_i))
    /\ sm_step_results' = [sm_step_results EXCEPT
                              ![sm_plan.steps[sm_i].step] = StepOutcome(sm_i)]
    /\ sm_i' = sm_i + 1
    /\ UNCHANGED <<sm_plan, sm_pc, sm_completed, sm_ready, sm_running>>

\* The sequential loop is over: return results.
SmSequentialReturn ==
    /\ SmFrame
    /\ sm_pc = "seq"
    /\ sm_i > Len(sm_plan.steps)
    /\ sm_pc' = "done"
    /\ UNCHANGED <<sm_plan, sm_i, sm_results, sm_step_results, sm_completed,
                   sm_ready, sm_running, sm_dispatched>>

\* A plausible slip: the dependencies of a step are not looked at.
ReadySteps_IgnoreDeps ==
    SmInOrder({i \in 1..Len(sm_plan.steps) :
                  sm_plan.steps[i].step \notin sm_completed}, 1)

\* A plausible slip: completed steps are not skipped.
ReadySteps_Again ==
    SmInOrder({i \in 1..Len(sm_plan.steps) :
                  sm_plan.steps[i].depends_on \subseteq sm_completed}, 1)

\* _execute_hybrid_plan: the steps not completed whose dependencies all are.
ReadySteps ==
    SmInOrder({i \in 1..Len(sm_plan.steps) :
                  /\ sm_plan.steps[i].step \notin sm_completed
                  /\ sm_plan.steps[i].depends_on \subseteq sm_completed}, 1)

\* One turn of the while loop of _execute_hybrid_plan up to its await: the
\* loop ends when every step is completed or none is ready; one ready step
\* is awaited alone, several are gathered.
HybridRound ==
    /\ SmFrame
    /\ sm_pc = "hybrid"
    /\ IF Cardinality(sm_completed) >= Len(sm_plan.steps) \/ ReadySteps = <<>>
       THEN /\ sm_pc' = "done"
            /\ UNCHANGED <<sm_ready, sm_running, sm_dispatched>>
       ELSE /\ sm_ready' = ReadySteps
            /\ sm_running' = [k \in 1..Len(ReadySteps) |-> "running"]
            /\ sm_dispatched' = sm_dispatched \o DispatchAll(ReadySteps, 1)
            /\ sm_pc' = IF Len(ReadySteps) = 1 THEN "hy_single" ELSE "hy_gather"
    /\ UNCHANGED <<sm_plan, sm_i, sm_results, sm_step_results, sm_completed>>

\* A coroutine of the round ends (its sleep is over, or it failed).
SmFinish(k) ==
    /\ SmFrame
    /\ sm_pc \in {"par_gather", "hy_single", "hy_gather"}
    /\ k \in 1..Len(sm_ready)
    /\ sm_running[k] = "running"
    /\ sm_running' = [sm_running EXCEPT ![k] = StepOutcome(sm_ready[k])]
    /\ UNCHANGED <<sm_plan, sm_pc, sm_i, sm_results, sm_step_results,
                   sm_completed, sm_ready, sm_dispatched>>

\* step_results after the results of the round are stored, in the order of
\* ready_steps (a later step of the same number overwrites).
RECURSIVE StoreAll(_, _, _)
StoreAll(sr, seq, k) ==
    IF k > Len(seq) THEN sr
    ELSE StoreAll([sr EXCEPT ![sm_plan.steps[seq[k]].step] = StepOutcome(seq[k])],
                  seq, k + 1)

\* The await of the round returns: the results are appended in the order of
\* ready_steps, whatever the order the coroutines ended in.
SmCollect ==
    /\ SmFrame
    /\ sm_pc \in {"par_gather", "hy_single", "hy_gather"}
    /\ \A k \in 1..Len(sm_ready) : sm_running[k] # "running"
    /\ sm_results' = sm_results \o [k \in 1..Len(sm_ready) |-> StepResult(sm_ready[k])]
    /\ IF sm_pc = "par_gather"
       THEN /\ sm_pc' = "done"
            /\ UNCHANGED <<sm_step_results, sm_completed>>
       ELSE /\ sm_pc' = "hybrid"
            /\ sm_step_results' = StoreAll(sm_step_results, sm_ready, 1)
            /\ sm_completed' = sm_completed \cup
                   {sm_plan.steps[sm_ready[k]].step : k \in 1..Len(sm_ready)}
    /\ sm_ready' = <<>>
    /\ sm_running' = <<>>
    /\ UNCHANGED <<sm_plan, sm_i, sm_dispatched>>

SmNext ==
    \/ SmCreatePlan
    \/ SmExecuteBegin
    \/ SmSequentialStep
    \/ SmSequentialReturn
    \/ HybridRound
    \/ \E k \in 1..MaxSteps : SmFinish(k)
    \/ SmCollect

(***************************************************************************)
(* Specifications: one component runs, the others stay as constructed.     *)
(***************************************************************************)
(***************************************************************************)
(* A2AAgentClient._send_message_async                                      *)
(***************************************************************************)

\* What the agent card lookup and the POST can come back with: an exception
\* (connection, HTTP status, body that is not JSON), or a JSON object whose
\* members are there or not.  "content" is a result a text can be extracted
\* from, "nocontent" one with none; "object" is an error with a message,
\* "malformed" one without.
JsonRpcVersions == {"2.0", "1.0", "missing"}
ResultKinds == {"missing", "content", "nocontent"}
ErrorKinds == {"missing", "object", "malformed"}

JsonResponses ==
    [http : {"ok"}, jsonrpc : JsonRpcVersions, id : BOOLEAN,
     result : ResultKinds, error : ErrorKinds]

Raised == [http |-> "raise", jsonrpc |-> "missing", id |-> FALSE,
           result |-> "missing", error |-> "missing"]

NoResult == [success |-> FALSE, response |-> "none"]

\* validate_jsonrpc_response
validate_jsonrpc_response(response) ==
    /\ response.jsonrpc # "missing" /\ response.id
    /\ response.jsonrpc = "2.0"
    /\ (response.result # "missing") # (response.error # "missing")

\* What _send_message_async returns for what the POST came back with.
SendMessageResult(response) ==
    IF response.http = "raise"
    THEN [success |-> FALSE, response |-> "exception"]
    ELSE IF response.error # "missing"
    THEN IF response.error = "object"
         THEN [success |-> FALSE, response |-> "rpc_error"]
         ELSE [success |-> FALSE, response |-> "exception"]
    ELSE IF response.result = "content"
    THEN [success |-> TRUE, response |-> "content"]
    ELSE [success |-> TRUE, response |-> "str"]

TrStartState ==
    /\ agent_card = FALSE
    /\ tr_pc = "idle"
    /\ tr_response = Raised
    /\ tr_result = NoResult

\* _send_message_async up to the parsing of the body: the agent card is
\* fetched when it is not cached, then the request is posted.
TrRequest ==
    /\ TrFrame
    /\ tr_pc \in {"idle", "returned"}
    /\ tr_pc' = "sent"
    /\ tr_result' = NoResult
    /\ \E card \in BOOLEAN :
           IF agent_card \/ card
           THEN /\ agent_card' = TRUE
                /\ tr_response' \in JsonResponses \cup {Raised}
           ELSE /\ agent_card' = agent_card
                /\ tr_response' = Raised

\* _send_message_async from the parsing of the body to its return.
TrReturn ==
    /\ TrFrame
    /\ tr_pc = "sent"
    /\ tr_pc' = "returned"
    /\ tr_result' = SendMessageResult(tr_response)
    /\ UNCHANGED <<agent_card, tr_response>>

TrNext ==
    \/ TrRequest
    \/ TrReturn


(***************************************************************************)
(* HealthChecker                                                           *)
(***************************************************************************)
HEALTHY == "healthy"
DEGRADED == "degraded"
UNHEALTHY == "unhealthy"

\* What awaiting a registered check function can come to: a dictionary with
\* status healthy, degraded or unhealthy, a dictionary with another status
\* or none ("other"), a value that is no dictionary, an exception, or no
\* answer within the 10 seconds of wait_for.
ProbeOutcomes ==
    {HEALTHY, DEGRADED, UNHEALTHY, "other", "nondict", "raise", "timeout"}

\* _run_check: the status of the dictionary it returns.
RunCheck(outcome) ==
    CASE outcome = "nondict" -> HEALTHY
      [] outcome \in {"raise", "timeout"} -> UNHEALTHY
      [] OTHER -> outcome

\* A plausible slip: a degraded result downgrades whatever came before.
OverallAfter_LastWins(overall, status) ==
    IF status = UNHEALTHY THEN UNHEALTHY
    ELSE IF status = DEGRADED THEN DEGRADED
    ELSE overall

\* check_health: overall_status after one more result.
OverallAfter(overall, status) ==
    IF status = UNHEALTHY THEN UNHEALTHY
    ELSE IF status = DEGRADED /\ overall = HEALTHY THEN DEGRADED
    ELSE overall

HcStartState ==
    /\ hc_n = 0
    /\ hc_pc = "idle"
    /\ hc_outcomes = <<>>
    /\ hc_overall = HEALTHY
    /\ hc_returned = "none"

\* register_check with a new name.
HcRegisterCheck ==
    /\ HcFrame
    /\ hc_pc \in {"idle", "returned"}
    /\ hc_n < MaxChecks
    /\ hc_n' = hc_n + 1
    /\ UNCHANGED <<hc_pc, hc_outcomes, hc_overall, hc_returned>>

\* check_health up to its loop.
HcCheckHealth ==
    /\ HcFrame
    /\ hc_pc \in {"idle", "returned"}
    /\ hc_pc' = "running"
    /\ hc_outcomes' = <<>>
    /\ hc_overall' = HEALTHY
    /\ UNCHANGED <<hc_n, hc_returned>>

\* One turn of the loop of check_health over self.checks.
HcRunCheck ==
    /\ HcFrame
    /\ hc_pc = "running"
    /\ Len(hc_outcomes) < hc_n
    /\ \E outcome \in ProbeOutcomes :
           /\ hc_outcomes' = Append(hc_outcomes, outcome)
           /\ hc_overall' = OverallAfter(hc_overall, RunCheck(outcome))
    /\ UNCHANGED <<hc_n, hc_pc, hc_returned>>

\* check_health after its loop.
HcReturn ==
    /\ HcFrame
    /\ hc_pc = "running"
    /\ Len(hc_outcomes) = hc_n
    /\ hc_pc' = "returned"
    /\ hc_returned' = hc_overall
    /\ UNCHANGED <<hc_n, hc_outcomes, hc_overall>>

HcNext ==
    \/ HcRegisterCheck
    \/ HcCheckHealth
    \/ HcRunCheck
    \/ HcReturn


(***************************************************************************)
(* AgentMetrics.track_request_duration                                     *)
(***************************************************************************)
Reqs == 1..MaxReqs

\* Where a request is: not started, inside the `async with`, left by its
\* consumer with the generator suspended at a yield inside the `async with`,
\* or out of the context manager again.
ReqPcs == {"out", "inside", "abandoned", "ended"}

CountStatuses == {"success", "error"}

MtStartState ==
    /\ mt_pc = [r \in Reqs |-> "out"]
    /\ active_tasks = 0
    /\ requests_total = [s \in CountStatuses |-> 0]
    /\ mt_counted = [r \in Reqs |-> <<>>]

\* increment_request_count, noted for the request that made it.
IncrementRequestCount(r, status) ==
    /\ requests_total' = [requests_total EXCEPT ![status] = @ + 1]
    /\ mt_counted' = [mt_counted EXCEPT ![r] = Append(@, status)]

\* track_request_duration up to its yield: set_active_tasks(1).
MtEnter(r) ==
    /\ MtFrame
    /\ mt_pc[r] = "out"
    /\ mt_pc' = [mt_pc EXCEPT ![r] = "inside"]
    /\ active_tasks' = 1
    /\ UNCHANGED <<requests_total, mt_counted>>

\* The body of the `async with` ends normally: the success branch, then
\* finally.
MtExitSuccess(r) ==
    /\ MtFrame
    /\ mt_pc[r] = "inside"
    /\ mt_pc' = [mt_pc EXCEPT ![r] = "ended"]
    /\ IncrementRequestCount(r, "success")
    /\ active_tasks' = 0

\* The body raises an Exception: the except branch, then finally.
MtExitError(r) ==
    /\ MtFrame
    /\ mt_pc[r] = "inside"
    /\ mt_pc' = [mt_pc EXCEPT ![r] = "ended"]
    /\ IncrementRequestCount(r, "error")
    /\ active_tasks' = 0

\* CalculatorAgentExecutor.execute leaves its `async for` with break after
\* the final item: CalculatorAgent.stream stays suspended at its yield,
\* inside the `async with`.
MtAbandon(r) ==
    /\ MtFrame
    /\ mt_pc[r] = "inside"
    /\ mt_pc' = [mt_pc EXCEPT ![r] = "abandoned"]
    /\ UNCHANGED <<active_tasks, requests_total, mt_counted>>

\* CancelledError (the task is cancelled) or GeneratorExit (the abandoned
\* generator is closed) is thrown at the yield: neither is an Exception, so
\* only finally runs.
MtExitBaseException(r) ==
    /\ MtFrame
    /\ mt_pc[r] \in {"inside", "abandoned"}
    /\ mt_pc' = [mt_pc EXCEPT ![r] = "ended"]
    /\ active_tasks' = 0
    /\ UNCHANGED <<requests_total, mt_counted>>

MtNext ==
    \/ \E r \in Reqs : MtEnter(r)
    \/ \E r \in Reqs : MtExitSuccess(r)
    \/ \E r \in Reqs : MtExitError(r)
    \/ \E r \in Reqs : MtAbandon(r)
    \/ \E r \in Reqs : MtExitBaseException(r)


(***************************************************************************)
(* StreamingConversationClient.stream_chat                                 *)
(***************************************************************************)
\* Event types (EventType).
EV_STATUS == "status"
EV_AGENT_SWITCH == "agent_switch"
EV_THINKING == "thinking"
EV_ERROR == "error"

\* The agents that have a proxy, and what a router may answer.
StProxies == {"base", "calculator"}
StRouted == StProxies \cup {"ghost"}

StStartState ==
    /\ st_router \in BOOLEAN
    /\ st_session = FALSE
    /\ st_queue = <<>>
    /\ st_last_agent = "none"
    /\ st_pc = "idle"
    /\ st_delivered = <<>>
    /\ st_calls = 0

\* create_streaming_session: a new session with its queue, and the welcome
\* event put on it.
StCreateSession ==
    /\ StFrame
    /\ ~st_session
    /\ st_pc \in {"idle", "completed"}
    /\ st_session' = TRUE
    /\ st_queue' = <<EV_STATUS>>
    /\ st_last_agent' = "none"
    /\ UNCHANGED <<st_router, st_pc, st_delivered, st_calls>>

\* end_session, between two uses of stream_chat.
StEndSession ==
    /\ StFrame
    /\ st_session
    /\ st_pc \in {"idle", "completed"}
    /\ st_session' = FALSE
    /\ st_queue' = <<>>
    /\ UNCHANGED <<st_router, st_last_agent, st_pc, st_delivered, st_calls>>

\* stream_chat up to the routing: an unknown session gets one error event
\* and the generator returns.
StStreamChat ==
    /\ StFrame
    /\ st_pc \in {"idle", "completed"}
    /\ st_calls < MaxMsgs
    /\ st_calls' = st_calls + 1
    /\ IF ~st_session
       THEN /\ st_delivered' = <<EV_ERROR>>
            /\ st_pc' = "completed"
       ELSE /\ st_delivered' = <<>>
            /\ st_pc' = "routing"
    /\ UNCHANGED <<st_router, st_session, st_queue, st_last_agent>>

\* The routing and the agent switch event; an agent without proxy and an
\* exception of the router each put an error event on the queue.
StRoute ==
    /\ StFrame
    /\ st_pc = "routing"
    /\ \/ /\ st_router
          /\ st_queue' = Append(st_queue, EV_ERROR)
          /\ st_pc' = "draining"
          /\ UNCHANGED st_last_agent
       \/ \E agent \in (IF st_router THEN StRouted ELSE StProxies) :
             LET switched == IF agent # st_last_agent
                             THEN Append(st_queue, EV_AGENT_SWITCH)
                             ELSE st_queue
             IN /\ st_last_agent' = agent
                /\ IF agent \in StProxies
                   THEN /\ st_queue' = switched
                        /\ st_pc' = "proxy"
                   ELSE /\ st_queue' = Append(switched, EV_ERROR)
                        /\ st_pc' = "draining"
    /\ UNCHANGED <<st_router, st_session, st_delivered, st_calls>>

\* The async for over proxy.stream_query: the thinking event, then
\* `await self._simulate_streaming_response(query)` on an async generator
\* raises TypeError, which the proxy turns into an error event; no chunk
\* is yielded.
StStreamQuery ==
    /\ StFrame
    /\ st_pc = "proxy"
    /\ st_queue' = st_queue \o <<EV_THINKING, EV_ERROR>>
    /\ st_pc' = "draining"
    /\ UNCHANGED <<st_router, st_session, st_last_agent, st_delivered, st_calls>>

\* One turn of get_events: queue.get() returns the next event, which
\* stream_chat yields.  No event of this client carries "session_ended", so
\* the loop goes on.
StGetEvent ==
    /\ StFrame
    /\ st_pc = "draining"
    /\ st_queue # <<>>
    /\ st_delivered' = Append(st_delivered, Head(st_queue))
    /\ st_queue' = Tail(st_queue)
    /\ UNCHANGED <<st_router, st_session, st_last_agent, st_pc, st_calls>>

\* The consumer is cancelled while get_events awaits queue.get():
\* get_events catches CancelledError and returns, and stream_chat ends.
StCancel ==
    /\ StFrame
    /\ st_pc = "draining"
    /\ st_pc' = "completed"
    /\ UNCHANGED <<st_router, st_session, st_queue, st_last_agent,
                   st_delivered, st_calls>>

StNext ==
    \/ StCreateSession
    \/ StEndSession
    \/ StStreamChat
    \/ StRoute
    \/ StStreamQuery
    \/ StGetEvent
    \/ StCancel


(***************************************************************************)
(* ConversationMemory and ConversationalA2AClient                          *)
(***************************************************************************)
Users == {"u1", "u2"}

\* No conversation id (None).
NoConv == 0

\* The keys of ConversationMemory.conversations.
ConvIds(convs) == {convs[i].id : i \in 1..Len(convs)}

\* self.conversations.get(conversation_id) is not None
HasConversation(convs, cid) == cid \in ConvIds(convs)

ConvIndex(convs, cid) == CHOOSE i \in 1..Len(convs) : convs[i].id = cid

RemoveAt(s, i) == SubSeq(s, 1, i - 1) \o SubSeq(s, i + 1, Len(s))

\* A plausible slip: max instead of min.
OldestIndex_Newest(convs) ==
    CHOOSE i \in 1..Len(convs) :
        /\ \A j \in 1..Len(convs) : convs[j].created_at <= convs[i].created_at
        /\ \A j \in 1..Len(convs) :
               j > i => convs[j].created_at < convs[i].created_at

\* min(self.conversations.keys(), key=created_at): the first key, in the
\* order of the dictionary, whose created_at is the smallest.
OldestIndex(convs) ==
    CHOOSE i \in 1..Len(convs) :
        /\ \A j \in 1..Len(convs) : convs[i].created_at <= convs[j].created_at
        /\ \A j \in 1..Len(convs) :
               j < i => convs[j].created_at > convs[i].created_at

\* ConversationMemory.create_conversation: the dictionary afterwards.
CreateConversation(convs, cid) ==
    LET added == Append(convs, [id |-> cid, created_at |-> cm_now,
                                messages |-> <<>>, turn_count |-> 0])
    IN IF Len(added) > cm_max_conversations
       THEN RemoveAt(added, OldestIndex(added))
       ELSE added

\* messages[-n:] for n >= 0 and a list longer than n (messages[-0:] is the
\* whole list).
LastMessages(msgs, n) ==
    IF n = 0 THEN msgs ELSE SubSeq(msgs, Len(msgs) - n + 1, Len(msgs))

\* ConversationMemory.add_message for a conversation that exists.
AddMessage(convs, cid, m) ==
    [i \in 1..Len(convs) |->
        IF convs[i].id = cid
        THEN LET appended == Append(convs[i].messages, m) IN
             [convs[i] EXCEPT
                 !.turn_count = @ + 1,
                 !.messages = IF Len(appended) > cm_max_messages
                              THEN LastMessages(appended, cm_max_messages)
                              ELSE appended]
        ELSE convs[i]]

CmStartState ==
    /\ cm_max_conversations \in 1..MaxLimit
    /\ cm_max_messages \in 1..MaxLimit
    /\ cm_conversations = <<>>
    /\ cm_active = [u \in Users |-> NoConv]
    /\ cm_next_conv = 1
    /\ cm_next_msg = 1
    /\ cm_now = 0
    /\ cm_pc = [u \in Users |-> "idle"]
    /\ cm_chat_conv = [u \in Users |-> NoConv]
    /\ cm_not_found = [u \in Users |-> FALSE]

\* start_conversation: create_conversation, the entry of
\* active_conversations, then the welcome message.
CmStartConversation(u) ==
    /\ CmFrame
    /\ cm_pc[u] = "idle"
    /\ cm_next_conv <= MaxConvs
    /\ cm_next_msg <= MaxMessages
    /\ LET created == CreateConversation(cm_conversations, cm_next_conv) IN
       IF HasConversation(created, cm_next_conv)
       THEN /\ cm_conversations' = AddMessage(created, cm_next_conv, cm_next_msg)
            /\ cm_next_msg' = cm_next_msg + 1
            /\ cm_not_found' = [cm_not_found EXCEPT ![u] = FALSE]
       ELSE /\ cm_conversations' = created
            /\ cm_next_msg' = cm_next_msg
            /\ cm_not_found' = [cm_not_found EXCEPT ![u] = TRUE]
    /\ cm_active' = [cm_active EXCEPT ![u] = cm_next_conv]
    /\ cm_next_conv' = cm_next_conv + 1
    /\ UNCHANGED <<cm_max_conversations, cm_max_messages, cm_now, cm_pc,
                   cm_chat_conv>>

\* chat for a user with an active conversation, up to the await of
\* _generate_response: the user's message is added, or add_message raises
\* ValueError because the conversation is not found.
CmChat(u) ==
    /\ CmFrame
    /\ cm_pc[u] = "idle"
    /\ cm_active[u] # NoConv
    /\ cm_next_msg <= MaxMessages
    /\ IF HasConversation(cm_conversations, cm_active[u])
       THEN /\ cm_conversations' =
                   AddMessage(cm_conversations, cm_active[u], cm_next_msg)
            /\ cm_next_msg' = cm_next_msg + 1
            /\ cm_pc' = [cm_pc EXCEPT ![u] = "responding"]
            /\ cm_chat_conv' = [cm_chat_conv EXCEPT ![u] = cm_active[u]]
            /\ cm_not_found' = [cm_not_found EXCEPT ![u] = FALSE]
       ELSE /\ cm_not_found' = [cm_not_found EXCEPT ![u] = TRUE]
            /\ UNCHANGED <<cm_conversations, cm_next_msg, cm_pc, cm_chat_conv>>
    /\ UNCHANGED <<cm_max_conversations, cm_max_messages, cm_active,
                   cm_next_conv, cm_now>>

\* chat after _generate_response: the agent's message is added, or
\* add_message raises ValueError.
CmChatRespond(u) ==
    /\ CmFrame
    /\ cm_pc[u] = "responding"
    /\ cm_next_msg <= MaxMessages
    /\ IF HasConversation(cm_conversations, cm_chat_conv[u])
       THEN /\ cm_conversations' =
                   AddMessage(cm_conversations, cm_chat_conv[u], cm_next_msg)
            /\ cm_next_msg' = cm_next_msg + 1
            /\ cm_not_found' = cm_not_found
       ELSE /\ cm_not_found' = [cm_not_found EXCEPT ![u] = TRUE]
            /\ UNCHANGED <<cm_conversations, cm_next_msg>>
    /\ cm_pc' = [cm_pc EXCEPT ![u] = "idle"]
    /\ cm_chat_conv' = [cm_chat_conv EXCEPT ![u] = NoConv]
    /\ UNCHANGED <<cm_max_conversations, cm_max_messages, cm_active,
                   cm_next_conv, cm_now>>

\* datetime.now() advances.
CmTick ==
    /\ CmFrame
    /\ cm_now < MaxTime
    /\ cm_now' = cm_now + 1
    /\ UNCHANGED <<cm_max_conversations, cm_max_messages, cm_conversations,
                   cm_active, cm_next_conv, cm_next_msg, cm_pc, cm_chat_conv,
                   cm_not_found>>

CmNext ==
    \/ \E u \in Users : CmStartConversation(u)
    \/ \E u \in Users : CmChat(u)
    \/ \E u \in Users : CmChatRespond(u)
    \/ CmTick


(***************************************************************************)
(* Agent discovery                                                         *)
(***************************************************************************)
Endpoints == 1..MaxEndpoints

\* The two discoveries of the repository.
DISCOVERY == "AgentDiscovery"
INITIALIZE == "initialize_agents"

\* What A2ACardResolver.get_agent_card comes to: a card, a failed fetch, or
\* a card without its required fields (the validation raises).
CardOutcomes == {"card", "fetch_error", "invalid_card"}

\* AgentDiscovery._discover_single_agent: the status of the entry.
DiscoverSingleStatus(outcome) ==
    IF outcome = "card" THEN "available" ELSE "unavailable"

\* EnhancedA2AStreamlitClient.initialize_agents: the status of the entry.
InitializeStatus(outcome) ==
    IF outcome = "card" THEN "online" ELSE "error"

DsStartState ==
    /\ ds_impl \in {DISCOVERY, INITIALIZE}
    /\ ds_pc = "idle"
    /\ ds_cards = [e \in Endpoints |-> "none"]
    /\ ds_status = [e \in Endpoints |-> "pending"]
    /\ ds_clients = {}

\* discover_agents / initialize_agents up to the first await.
DsStart ==
    /\ DsFrame
    /\ ds_pc = "idle"
    /\ ds_pc' = "running"
    /\ UNCHANGED <<ds_impl, ds_cards, ds_status, ds_clients>>

\* One task of _discover_agents_internal: _discover_single_agent for an
\* endpoint; the tasks run concurrently, in any order.
DsDiscoverSingle(e) ==
    /\ DsFrame
    /\ ds_impl = DISCOVERY
    /\ ds_pc = "running"
    /\ ds_status[e] = "pending"
    /\ \E outcome \in CardOutcomes :
           /\ ds_cards' = [ds_cards EXCEPT ![e] = outcome]
           /\ ds_status' = [ds_status EXCEPT ![e] = DiscoverSingleStatus(outcome)]
    /\ UNCHANGED <<ds_impl, ds_pc, ds_clients>>

\* One turn of the loop of initialize_agents over AGENT_ENDPOINTS.
DsInitializeStep(e) ==
    /\ DsFrame
    /\ ds_impl = INITIALIZE
    /\ ds_pc = "running"
    /\ ds_status[e] = "pending"
    /\ \A d \in Endpoints : d < e => ds_status[d] # "pending"
    /\ \E outcome \in CardOutcomes :
           /\ ds_cards' = [ds_cards EXCEPT ![e] = outcome]
           /\ ds_status' = [ds_status EXCEPT ![e] = InitializeStatus(outcome)]
           /\ ds_clients' = IF outcome = "card" THEN ds_clients \cup {e}
                            ELSE ds_clients
    /\ UNCHANGED <<ds_impl, ds_pc>>

\* gather has every result / the loop is over: the entries are returned.
DsReturn ==
    /\ DsFrame
    /\ ds_pc = "running"
    /\ \A e \in Endpoints : ds_status[e] # "pending"
    /\ ds_pc' = "returned"
    /\ UNCHANGED <<ds_impl, ds_cards, ds_status, ds_clients>>

DsNext ==
    \/ DsStart
    \/ \E e \in Endpoints : DsDiscoverSingle(e)
    \/ \E e \in Endpoints : DsInitializeStep(e)
    \/ DsReturn

CBIdle ==
    /\ CBStart
    /\ failure_threshold = 1
    /\ recovery_timeout = 1

ExIdle ==
    /\ ExStartState
    /\ ex_kind = [e \in Execs |-> "base"]
    /\ ex_query = [e \in Execs |-> TRUE]
    /\ ex_current = [e \in Execs |-> FALSE]

OrIdle ==
    /\ OrStartState
    /\ or_query = "hello"
    /\ or_clients = Catalog

SmIdle == SmStartState

TrIdle == TrStartState

HcIdle ==
    HcStartState

MtIdle ==
    MtStartState

StIdle ==
    /\ StStartState
    /\ st_router = FALSE

CmIdle ==
    /\ CmStartState
    /\ cm_max_conversations = 1
    /\ cm_max_messages = 1

DsIdle ==
    /\ DsStartState
    /\ ds_impl = DISCOVERY

CBInit == CBStart /\ ExIdle /\ OrIdle /\ SmIdle /\ TrIdle /\ HcIdle /\ MtIdle /\ StIdle /\ CmIdle /\ DsIdle

SpecCB == CBInit /\ [][CBNext]_vars

ExInit == ExStartState /\ CBIdle /\ OrIdle /\ SmIdle /\ TrIdle /\ HcIdle /\ MtIdle /\ StIdle /\ CmIdle /\ DsIdle

SpecEx == ExInit /\ [][ExNext]_vars

OrInit == OrStartState /\ CBIdle /\ ExIdle /\ SmIdle /\ TrIdle /\ HcIdle /\ MtIdle /\ StIdle /\ CmIdle /\ DsIdle

SpecOr == OrInit /\ [][OrNext]_vars

SmInit == SmStartState /\ CBIdle /\ ExIdle /\ OrIdle /\ TrIdle /\ HcIdle /\ MtIdle /\ StIdle /\ CmIdle /\ DsIdle

SpecSm == SmInit /\ [][SmNext]_vars

\* The event loop runs every coroutine that can run: a step that is enabled is
\* eventually taken.
SpecSmFair == SmInit /\ [][SmNext]_vars /\ WF_vars(SmNext)

TrInit == TrStartState /\ CBIdle /\ ExIdle /\ OrIdle /\ SmIdle /\ HcIdle /\ MtIdle /\ StIdle /\ CmIdle /\ DsIdle

SpecTr == TrInit /\ [][TrNext]_vars

HcInit == HcStartState /\ CBIdle /\ ExIdle /\ OrIdle /\ SmIdle /\ TrIdle /\ MtIdle /\ StIdle /\ CmIdle /\ DsIdle

SpecHc == HcInit /\ [][HcNext]_vars

MtInit == MtStartState /\ CBIdle /\ ExIdle /\ OrIdle /\ SmIdle /\ TrIdle /\ HcIdle /\ StIdle /\ CmIdle /\ DsIdle

SpecMt == MtInit /\ [][MtNext]_vars

StInit == StStartState /\ CBIdle /\ ExIdle /\ OrIdle /\ SmIdle /\ TrIdle /\ HcIdle /\ MtIdle /\ CmIdle /\ DsIdle

SpecSt == StInit /\ [][StNext]_vars

CmInit == CmStartState /\ CBIdle /\ ExIdle /\ OrIdle /\ SmIdle /\ TrIdle /\ HcIdle /\ MtIdle /\ StIdle /\ DsIdle

SpecCm == CmInit /\ [][CmNext]_vars

DsInit == DsStartState /\ CBIdle /\ ExIdle /\ OrIdle /\ SmIdle /\ TrIdle /\ HcIdle /\ MtIdle /\ StIdle /\ CmIdle

SpecDs == DsInit /\ [][DsNext]_vars

(***************************************************************************)
(* Properties of the circuit breaker                                       *)
(***************************************************************************)

\* C1: a call attempted on an open breaker before recovery_timeout has
\* elapsed since the last failure is rejected, the wrapped call is not
\* started, and state, failure_count and last_failure_time keep their values.
C1_OpenRejects ==
    [][\A c \in Calls :
          (/\ callpc[c] = "idle"
           /\ callpc'[c] # "idle"
           /\ state = OPEN
           /\ last_failure_time # NoTime
           /\ now - last_failure_time < recovery_timeout)
          => (/\ callpc'[c] = "rejected"
              /\ state' = state
              /\ failure_count' = failure_count
              /\ last_failure_time' = last_failure_time)]_vars

\* C1 happens: a call was rejected by an open breaker whose timeout has not
\* elapsed.
C1_Witness ==
    \E c \in Calls :
        /\ callpc[c] = "rejected"
        /\ state = OPEN
        /\ now - last_failure_time < recovery_timeout

\* C2: the breaker changes state only along the transitions of the table:
\* closed to open on a counted failure that reaches the threshold, open to
\* half_open on a call attempted after recovery_timeout, half_open to closed
\* on success, half_open to open on failure; never open to closed.
C2_TableOnly ==
    [][state' # state =>
          \/ /\ state = CLOSED
             /\ state' = OPEN
             /\ \E c \in Calls : callpc[c] = "running" /\ callpc'[c] = "failed"
             /\ failure_count' >= failure_threshold
          \/ /\ state = OPEN
             /\ state' = HALF_OPEN
             /\ \E c \in Calls : callpc[c] = "idle" /\ callpc'[c] = "running"
             /\ now - last_failure_time >= recovery_timeout
          \/ /\ state = HALF_OPEN
             /\ state' = CLOSED
             /\ \E c \in Calls : callpc[c] = "running" /\ callpc'[c] = "succeeded"
          \/ /\ state = HALF_OPEN
             /\ state' = OPEN
             /\ \E c \in Calls : callpc[c] = "running" /\ callpc'[c] = "failed"]_vars

\* C8: a counted failure in the closed state increments failure_count and
\* leaves the breaker open exactly when the count has reached the threshold,
\* closed otherwise; a closed breaker has failure_count < failure_threshold.
C8_ClosedFailure ==
    /\ [](state = CLOSED => failure_count < failure_threshold)
    /\ [][\A c \in Calls :
             (callpc[c] = "running" /\ callpc'[c] = "failed" /\ state = CLOSED)
             => (/\ failure_count' = failure_count + 1
                 /\ (state' = OPEN <=> failure_count' >= failure_threshold)
                 /\ (state' # OPEN => state' = CLOSED))]_vars

\* C8 happens: a failure was counted in the closed state and the breaker
\* stayed closed below the threshold.
C8_Witness ==
    \E c \in Calls :
        /\ callpc[c] = "failed"
        /\ observed[c] = CLOSED
        /\ state = CLOSED
        /\ failure_count >= 1

\* C9: when an admitted call completes successfully the breaker is closed and
\* failure_count is 0 immediately afterwards.
C9_SuccessResets ==
    [][\A c \in Calls :
          (callpc[c] = "running" /\ callpc'[c] = "succeeded")
          => (state' = CLOSED /\ failure_count' = 0)]_vars

\* C9 happens: a call succeeded on a half_open breaker with failures counted.
C9_Witness ==
    \E c \in Calls :
        /\ callpc[c] = "succeeded"
        /\ observed[c] = HALF_OPEN
        /\ state = CLOSED
        /\ failure_count = 0

\* C10: a counted failure while the breaker is half_open opens the breaker
\* and sets last_failure_time to the time of that failure, for every
\* failure_threshold.
C10_HalfOpenFailure ==
    [][\A c \in Calls :
          (callpc[c] = "running" /\ callpc'[c] = "failed" /\ state = HALF_OPEN)
          => (state' = OPEN /\ last_failure_time' = now)]_vars

\* C10 happens: a call failed on a half_open breaker.
C10_Witness ==
    \E c \in Calls :
        /\ callpc[c] = "failed"
        /\ observed[c] = HALF_OPEN
        /\ state = OPEN

\* C11: a call attempted on an open breaker once recovery_timeout has elapsed
\* since last_failure_time moves the breaker to half_open, and the wrapped
\* call is then executed.
C11_OpenProbes ==
    [][\A c \in Calls :
          (/\ callpc[c] = "idle"
           /\ callpc'[c] # "idle"
           /\ state = OPEN
           /\ last_failure_time # NoTime
           /\ now - last_failure_time >= recovery_timeout)
          => (state' = HALF_OPEN /\ callpc'[c] = "running")]_vars

\* C11 happens: a call runs that found the breaker open exactly
\* recovery_timeout after the last failure and left it half_open.
C11_Witness ==
    \E c \in Calls :
        /\ callpc[c] = "running"
        /\ state = HALF_OPEN
        /\ now - last_failure_time = recovery_timeout

\* C12: every change of state, failure_count or last_failure_time is made by
\* a call that holds a lock of the breaker at that moment.
C12_MutationsUnderLock ==
    [][\A c \in Calls :
          (/\ callpc'[c] # callpc[c]
           /\ <<state, failure_count, last_failure_time>>' #
                  <<state, failure_count, last_failure_time>>)
          => LocksHeld(c) # {}]_vars

\* C13: an exception raised by the wrapped call is counted as a failure if and
\* only if it is an instance of the configured expected_exception_types;
\* timeouts and transport errors are counted; a cancellation changes neither
\* failure_count nor state.
C13_CountedExceptions ==
    [][\A c \in Calls :
          (callpc[c] = "running" /\ raised'[c] # raised[c])
          => /\ (failure_count' = failure_count + 1) <=>
                    (Ancestors(raised'[c]) \cap expected_exception_types # {})
             /\ raised'[c] \in {"TimeoutError", "ConnectionError"}
                    => failure_count' = failure_count + 1
             /\ raised'[c] = "CancelledError"
                    => (failure_count' = failure_count /\ state' = state)]_vars

\* C13 happens: one call was cancelled and went uncounted while another
\* timed out and was counted.
C13_Witness ==
    \E c1, c2 \in Calls :
        /\ callpc[c1] = "escaped"
        /\ raised[c1] = "CancelledError"
        /\ callpc[c2] = "failed"
        /\ raised[c2] = "TimeoutError"
        /\ failure_count >= 1

(***************************************************************************)
(* Properties of the agent executors                                       *)
(***************************************************************************)
\* The task of request e was created by this execute call.
Created(e) ==
    /\ ~ex_current[e]
    /\ Len(events[e]) > 0
    /\ events[e][1] = TASK_EVENT

Ended(e) == ex_pc[e] \in {"returned", "raised"}

TerminalEmitted(e) ==
    {i \in 1..Len(events[e]) : events[e][i] \in TerminalStates}

FinalEmitted(e) ==
    {i \in 1..Len(events[e]) : events[e][i] \in TerminalStates \cup {INPUT_REQUIRED}}

C14_CancelCancels ==
    [][\A e \in Execs :
          (ex_cancel[e] = "none" /\ ex_cancel'[e] # "none")
          => (task_state'[e] = CANCELED /\ ex_cancel'[e] = "canceled_final")]_vars

\* The positions of events[e] at which a status s was emitted.
Emitted(e, s) == {i \in 1..Len(events[e]) : events[e][i] = s}

\* C15: for each item of the generator the executor emits a working status
\* when neither flag is set, an input_required status (final) when
\* require_user_input is set, and an artifact followed by completed when
\* is_task_complete is set; after a final status it asks for no further item.
C15_ItemEmission ==
    /\ [][\A e \in Execs :
             ex_pos'[e] = ex_pos[e] + 1 =>
                LET item == ex_stream[e][ex_pos'[e]] IN
                /\ item = WORKING_ITEM
                       => (events'[e] = Append(events[e], WORKING)
                           /\ task_state'[e] = WORKING)
                /\ item = INPUT_ITEM
                       => (events'[e] = Append(events[e], INPUT_REQUIRED)
                           /\ task_state'[e] = INPUT_REQUIRED)
                /\ item = COMPLETE_ITEM
                       => events'[e] = Append(events[e], ARTIFACT_EVENT)]_vars
    /\ [](\A e \in Execs : \A i \in Emitted(e, COMPLETED) :
              i > 1 /\ events[e][i - 1] = ARTIFACT_EVENT)
    /\ [](\A e \in Execs :
              (ex_pc[e] = "returned" /\ Emitted(e, ARTIFACT_EVENT) # {})
              => events[e][Len(events[e])] = COMPLETED)
    /\ [](\A e \in Execs : FinalEmitted(e) # {} => ex_pc[e] # "loop")

\* C15 happens: the calculator's stream was consumed to its end: a working
\* status, then the artifact and the completion.
C15_Witness ==
    \E e \in Execs :
        /\ ex_pc[e] = "returned"
        /\ ex_pos[e] = 2
        /\ Emitted(e, WORKING) # {}
        /\ Emitted(e, ARTIFACT_EVENT) # {}
        /\ events[e][Len(events[e])] = COMPLETED

\* C16: whenever a task is completed, an artifact was added to it before.
C16_CompletedHasArtifact ==
    /\ [](\A e \in Execs : \A i \in Emitted(e, COMPLETED) :
              \E j \in Emitted(e, ARTIFACT_EVENT) : j < i)
    /\ [][\A e \in Execs :
             (task_state'[e] = COMPLETED /\ task_state[e] # COMPLETED)
             => Emitted(e, ARTIFACT_EVENT) # {}]_vars

\* C16 happens: a resumed task was completed.
C16_Witness ==
    \E e \in Execs :
        /\ ex_current[e]
        /\ task_state[e] = COMPLETED
        /\ Emitted(e, ARTIFACT_EVENT) # {}

OrDependsOn(i, j) == or_plan.steps[j].agent \in or_plan.steps[i].dependencies

\* The steps that step i reaches along dependencies, in at most k hops.
RECURSIVE OrReach(_, _)
OrReach(i, k) ==
    IF k = 0 THEN {}
    ELSE LET direct == {j \in 1..Len(or_plan.steps) : OrDependsOn(i, j)}
         IN direct \cup UNION {OrReach(j, k - 1) : j \in direct}

OrAcyclic ==
    \A i \in 1..Len(or_plan.steps) : i \notin OrReach(i, Len(or_plan.steps))

\* C3: a step is dispatched to its agent only when every step it depends on
\* has produced a successful result; a step with a failed or missing
\* dependency is never dispatched.
C3_DispatchAfterDeps ==
    [][Len(or_dispatched') > Len(or_dispatched) =>
          LET sent == or_dispatched'[Len(or_dispatched')]
          IN \A dep \in or_plan.steps[sent.step].dependencies :
                 or_results[dep] = "ok"]_vars

\* C4: for an acyclic plan of any execution_type, execute_plan returns one
\* result per step, |steps| in all, also when steps share an agent.
C4_OneResultPerStep ==
    (or_pc = "done" /\ OrAcyclic) => Len(or_keys) = Len(or_plan.steps)

\* Step i of the smart plan lists the number of step j in its depends_on.
SmDependsOn(i, j) == sm_plan.steps[j].step \in sm_plan.steps[i].depends_on

\* The steps that step i reaches along depends_on, in at most k hops.
RECURSIVE SmReach(_, _)
SmReach(i, k) ==
    IF k = 0 THEN {}
    ELSE LET direct == {j \in 1..Len(sm_plan.steps) : SmDependsOn(i, j)}
         IN direct \cup UNION {SmReach(j, k - 1) : j \in direct}

SmCyclic ==
    /\ sm_plan # NoPlan
    /\ \E i \in 1..Len(sm_plan.steps) : i \in SmReach(i, Len(sm_plan.steps))

\* Every step has its own number and every depends_on names steps of the plan.
SmProperPlan ==
    /\ sm_plan # NoPlan
    /\ \A i, j \in 1..Len(sm_plan.steps) :
           sm_plan.steps[i].step = sm_plan.steps[j].step => i = j
    /\ \A i \in 1..Len(sm_plan.steps) :
           sm_plan.steps[i].depends_on \subseteq
               {sm_plan.steps[j].step : j \in 1..Len(sm_plan.steps)}

\* C6: when a step fails, every step that depends on it (directly, or through
\* skipped steps) is not dispatched and is recorded in the results as skipped
\* with the reason dependency_failed.
C6_FailedDependencySkips ==
    (sm_pc = "done" /\ SmProperPlan /\ ~SmCyclic) =>
        \A i \in 1..Len(sm_plan.steps) :
            (\E k \in 1..Len(sm_results) :
                 /\ sm_results[k].step \in sm_plan.steps[i].depends_on
                 /\ ~sm_results[k].success) =>
                /\ \A d \in 1..Len(sm_dispatched) : sm_dispatched[d].step # i
                /\ \E k \in 1..Len(sm_results) :
                       /\ sm_results[k].step = sm_plan.steps[i].step
                       /\ sm_results[k].error = "dependency_failed"

\* C7: a plan whose dependencies form a cycle is rejected when it is made, and
\* none of its steps is executed.
C7_CyclicPlanRejected ==
    SmCyclic => /\ sm_pc \in {"plan", "execute", "rejected"}
                /\ sm_results = <<>>
                /\ sm_dispatched = <<>>

\* The place of the step numbered n in the plan.
SmIndexOf(n) == CHOOSE i \in 1..Len(sm_plan.steps) : sm_plan.steps[i].step = n

\* C18: the results _execute_plan returns are in the order the plan declares
\* the steps, whatever the order the steps ran or ended in.
C18_DeclarationOrder ==
    (sm_pc = "done" /\ SmProperPlan /\ ~SmCyclic) =>
        \A k, l \in 1..Len(sm_results) :
            k < l => SmIndexOf(sm_results[k].step) < SmIndexOf(sm_results[l].step)

\* C19: in parallel mode every step of the plan is launched, and all of them
\* are in flight before the scheduler has the result of any: once a task has
\* its reply, or the scheduler collects, every step has been sent.
C19_AllInFlight ==
    (/\ or_plan.execution_type = "parallel"
     /\ \/ or_pc \in {"par_collect", "done"}
        \/ \E k \in 1..Len(or_tasks) : or_tasks[k].out # "pending")
    => \A i \in 1..Len(or_plan.steps) :
           \E d \in 1..Len(or_dispatched) : or_dispatched[d].step = i

\* The topological level of step i of an acyclic plan: 1 without
\* dependencies, else one more than the highest level it depends on.
RECURSIVE SmLevel(_)
SmLevel(i) ==
    LET direct == {j \in 1..Len(sm_plan.steps) : SmDependsOn(i, j)}
        RECURSIVE Highest(_)
        Highest(S) == IF S = {} THEN 0
                      ELSE LET j == CHOOSE x \in S : TRUE
                               rest == Highest(S \ {j})
                           IN IF SmLevel(j) > rest THEN SmLevel(j) ELSE rest
    IN 1 + Highest(direct)

SmHybridDag ==
    /\ sm_plan # NoPlan
    /\ sm_plan.execution_type = "hybrid"
    /\ SmProperPlan
    /\ ~SmCyclic

OrScheduled == {"seq", "par_run", "par_collect", "done", "synthesized"}

\* C21: a plan of exactly one step gives the same dispatched task and the
\* same results whether it is labelled parallel or sequential: what the
\* sequential branch does for a first step (send the task as it is when the
\* agent has a client, record "not available" otherwise).
C21_SingleStepSameAsSequential ==
    (/\ or_pc = "done"
     /\ Len(or_plan.steps) = 1
     /\ or_plan.execution_type \in {"sequential", "parallel"})
    => LET step == or_plan.steps[1] IN
       /\ or_dispatched = IF step.agent \in or_clients
                          THEN <<[step |-> 1, ctx |-> {}]>>
                          ELSE <<>>
       /\ or_keys = <<step.agent>>
       /\ or_results[step.agent] \in
              (IF step.agent \in or_clients THEN SendOutcomes ELSE {"unavailable"})

\* C22: the context a step is sent with is made of the results its
\* dependencies had when it was dispatched, and nothing written afterwards
\* changes what an already dispatched step was sent.
C22_ContextSnapshot ==
    /\ [][Len(or_dispatched') > Len(or_dispatched) =>
             LET sent == or_dispatched'[Len(or_dispatched')]
                 step == or_plan.steps[sent.step]
             IN sent.ctx = IF or_plan.execution_type = "sequential"
                           THEN {d \in step.dependencies : or_results[d] = "ok"}
                           ELSE {}]_vars
    /\ [][/\ Len(or_dispatched') >= Len(or_dispatched)
          /\ \A d \in 1..Len(or_dispatched) :
                 or_dispatched'[d] = or_dispatched[d]]_vars

\* C22 happens: a step was sent with the result of its dependency, and a
\* result was written after that.
C22_Witness ==
    /\ or_pc = "done"
    /\ Len(or_keys) = 2
    /\ \E d \in 1..Len(or_dispatched) : or_dispatched[d].ctx # {}

\* C23: in sequential mode every step after the first is sent with the
\* successful result of the step before it in its context, also when its
\* dependencies list is empty.
C23_ImplicitPredecessor ==
    [][(/\ or_plan.execution_type = "sequential"
        /\ Len(or_dispatched') > Len(or_dispatched))
       => LET sent == or_dispatched'[Len(or_dispatched')] IN
          (/\ sent.step > 1
           /\ or_results[or_plan.steps[sent.step - 1].agent] = "ok")
          => or_plan.steps[sent.step - 1].agent \in sent.ctx]_vars

\* C24: the failure of a step's remote call is recorded as the result of
\* that step's agent and of no other, execute_plan goes on, and the steps
\* that remain are still executed.
C24_FailureIsolated ==
    /\ [][(or_pc = "seq" /\ Len(or_dispatched') > Len(or_dispatched))
          => LET a == or_plan.steps[or_i].agent IN
             /\ or_results'[a] \in SendOutcomes
             /\ \A b \in AgentNames \ {a} : or_results'[b] = or_results[b]
             /\ or_pc' = "seq"
             /\ or_i' = or_i + 1]_vars
    /\ [][(or_pc = "par_collect" /\ or_i' = or_i + 1)
          => LET a == or_tasks[or_i].agent IN
             /\ or_results'[a] = or_tasks[or_i].out
             /\ \A b \in AgentNames \ {a} : or_results'[b] = or_results[b]]_vars
    /\ [](or_pc = "done" /\ or_plan.execution_type = "sequential"
             => \A i \in 1..Len(or_plan.steps) :
                    or_plan.steps[i].agent \in or_clients
                        => \E d \in 1..Len(or_dispatched) : or_dispatched[d].step = i)
    /\ [](or_pc = "done" /\ or_plan.execution_type = "parallel"
             => \A i \in ParallelLaunched :
                    \E d \in 1..Len(or_dispatched) : or_dispatched[d].step = i)

\* C24 happens: the first step of a sequential plan failed and the second
\* was still sent and succeeded.
C24_Witness ==
    /\ or_pc = "done"
    /\ or_plan.execution_type = "sequential"
    /\ Len(or_dispatched) = 2
    /\ or_results[or_plan.steps[1].agent] = "fail"
    /\ or_results[or_plan.steps[2].agent] = "ok"

\* C25: a plan with zero steps is rejected and never reaches scheduling or
\* synthesis.
C25_EmptyPlanRejected ==
    (or_plan # NoPlan /\ or_plan.steps = <<>>) => or_pc \notin OrScheduled

\* C26: a plan with a step whose agent is not in the catalog is rejected
\* before any step is executed.
C26_UnknownAgentRejected ==
    (\E i \in 1..Len(or_plan.steps) : or_plan.steps[i].agent \notin Catalog)
    => (or_pc \notin OrScheduled /\ or_dispatched = <<>> /\ or_keys = <<>>)

\* C27: when the LLM is unavailable or its output is invalid and the query
\* holds no agent keyword, the plan is one sequential step for the base agent.
C27_FallbackToBase ==
    [][(/\ or_pc = "plan"
        /\ or_pc' = "execute"
        /\ or_llm' \in {"garbage", "unavailable"}
        /\ or_query = "hello")
       => or_plan' = [steps |-> <<[agent |-> "base", dependencies |-> {}]>>,
                      execution_type |-> "sequential"]]_vars

\* C28: for a plan of one step that has a result, synthesize_response returns
\* the response text as it is when the step succeeded and an error message
\* when it failed.
C28_SingleStepSynthesis ==
    [][(/\ or_pc = "done"
        /\ or_pc' = "synthesized"
        /\ Len(or_plan.steps) = 1
        /\ or_results[or_plan.steps[1].agent] # "absent")
       => or_final' = [kind |-> IF or_results[or_plan.steps[1].agent] = "ok"
                                THEN "verbatim" ELSE "error",
                       agents |-> <<or_plan.steps[1].agent>>]]_vars

\* C28 happens: the one step of the plan succeeded and its text was returned.
C28_Witness ==
    /\ or_pc = "synthesized"
    /\ Len(or_plan.steps) = 1
    /\ or_results[or_plan.steps[1].agent] = "ok"
    /\ or_final.kind = "verbatim"

\* C29: when the LLM call fails during the synthesis of several results,
\* synthesize_response returns the concatenation of the "**agent**: text"
\* entries of the successful results.
C29_SynthesisFallback ==
    [][(/\ or_pc = "done"
        /\ or_pc' = "synthesized"
        /\ Len(or_keys) > 1
        /\ or_llm' = "unavailable")
       => or_final' = [kind |-> "concatenation",
                       agents |-> SuccessfulKeys(or_keys)]]_vars

\* C30: a response that lacks jsonrpc or id, carries both result and error,
\* or has a jsonrpc version other than 2.0 is never returned as a successful
\* result.
C30_InvalidNeverSuccess ==
    (/\ tr_pc = "returned"
     /\ tr_response.http = "ok"
     /\ ~validate_jsonrpc_response(tr_response))
    => ~tr_result.success

\* C33: while the breaker is half_open at most one call is in flight: a call
\* attempted while another one is running is not executed.
C33_SingleProbe ==
    [][\A c \in Calls :
          (state = HALF_OPEN /\ callpc[c] = "idle" /\ callpc'[c] = "running")
          => \A d \in Calls \ {c} : callpc[d] # "running"]_vars

(***************************************************************************)
(* Properties of the health checker                                        *)
(***************************************************************************)

\* C31: check_health returns the worst status of the registered probes:
\* unhealthy when a probe is unhealthy, raises or times out, otherwise
\* degraded when a probe is degraded, otherwise healthy.
C31_WorstStatus ==
    /\ [][(hc_pc = "running" /\ hc_pc' = "returned")
             => Len(hc_outcomes) = hc_n]_vars
    /\ [](hc_pc = "returned" =>
            hc_returned =
              IF \E i \in 1..Len(hc_outcomes) :
                     hc_outcomes[i] \in {UNHEALTHY, "raise", "timeout"}
              THEN UNHEALTHY
              ELSE IF \E i \in 1..Len(hc_outcomes) : hc_outcomes[i] = DEGRADED
              THEN DEGRADED
              ELSE HEALTHY)

\* C31 happens: a probe timed out, a later one was degraded, and the check
\* returned unhealthy.
C31_Witness ==
    /\ hc_pc = "returned"
    /\ Len(hc_outcomes) >= 2
    /\ hc_outcomes[1] = "timeout"
    /\ hc_outcomes[2] = DEGRADED
    /\ hc_returned = UNHEALTHY

(***************************************************************************)
(* Properties of the metrics                                               *)
(***************************************************************************)

\* C35: a request that entered track_request_duration and has ended, or
\* whose generator was left by its consumer, has incremented requests_total
\* exactly once.
C35_CountedOnce ==
    \A r \in Reqs : mt_pc[r] \in {"abandoned", "ended"} => Len(mt_counted[r]) = 1

\* C36: active_tasks is the number of requests inside
\* track_request_duration.
C36_GaugeIsCount ==
    active_tasks = Cardinality({r \in Reqs : mt_pc[r] \in {"inside", "abandoned"}})

(***************************************************************************)
(* Further properties of the executors                                     *)
(***************************************************************************)

\* C34: when execute ends by raising after a task exists, a failed status
\* marked final was emitted for the task before, also when the task was
\* created by that same call.
C34_FailedBeforeRaise ==
    \A e \in Execs :
        (ex_pc[e] = "raised" /\ ex_query[e] /\ task_state[e] # "none")
        => /\ Emitted(e, FAILED) # {}
           /\ task_state[e] = FAILED

(***************************************************************************)
(* Properties of the streaming client                                      *)
(***************************************************************************)

\* C37: stream_chat is never left waiting on the session queue once all the
\* events of its message have been delivered.
C37_NeverBlocked ==
    ~(st_pc = "draining" /\ st_queue = <<>>)

(***************************************************************************)
(* Properties of the conversation memory                                   *)
(***************************************************************************)

\* C38: every id in active_conversations is the id of a stored conversation,
\* and chat for a user with an active conversation never fails with
\* "conversation not found".
C38_ActiveExists ==
    \A u \in Users :
        /\ cm_active[u] # NoConv => HasConversation(cm_conversations, cm_active[u])
        /\ ~cm_not_found[u]

\* The messages conversation cid holds in convs (none when it is not there).
MessagesOf(convs, cid) ==
    IF HasConversation(convs, cid)
    THEN convs[ConvIndex(convs, cid)].messages
    ELSE <<>>

\* C40: the stored conversations never exceed max_conversations and no
\* conversation holds more than max_messages_per_conversation messages; a
\* new conversation is stored and what is evicted for it is the oldest of
\* the others; a new message is the last of its conversation and what is
\* dropped for it are the oldest messages.
C40_BoundedMemory ==
    /\ [](/\ Len(cm_conversations) <= cm_max_conversations
          /\ \A i \in 1..Len(cm_conversations) :
                 Len(cm_conversations[i].messages) <= cm_max_messages)
    /\ [][cm_next_conv' > cm_next_conv =>
             /\ HasConversation(cm_conversations', cm_next_conv)
             /\ \A i \in 1..Len(cm_conversations) :
                    ~HasConversation(cm_conversations', cm_conversations[i].id)
                    => \A j \in 1..Len(cm_conversations) :
                           cm_conversations[i].created_at
                               <= cm_conversations[j].created_at]_vars
    /\ [][cm_next_msg' > cm_next_msg =>
             \E i \in 1..Len(cm_conversations') :
                 LET new == cm_conversations'[i].messages
                     all == Append(MessagesOf(cm_conversations,
                                              cm_conversations'[i].id),
                                   cm_next_msg)
                 IN /\ new # <<>>
                    /\ new[Len(new)] = cm_next_msg
                    /\ new = SubSeq(all, Len(all) - Len(new) + 1, Len(all))]_vars

\* C40 happens: a conversation was evicted and a stored conversation has
\* dropped messages.
C40_Witness ==
    /\ cm_next_conv - 1 > Len(cm_conversations)
    /\ Len(cm_conversations) = cm_max_conversations
    /\ \E i \in 1..Len(cm_conversations) :
           /\ cm_conversations[i].turn_count > Len(cm_conversations[i].messages)
           /\ Len(cm_conversations[i].messages) = cm_max_messages

(***************************************************************************)
(* Further properties of the smart routing client                          *)
(***************************************************************************)

\* C39: _execute_hybrid_plan terminates for every plan, also with cyclic,
\* self-referential or missing dependencies and with duplicate step numbers,
\* and it executes every step of the plan at most once.
C39_HybridTerminates ==
    /\ (sm_pc = "hybrid") ~> (sm_pc = "done")
    /\ [](sm_plan # NoPlan /\ sm_plan.execution_type = "hybrid"
             => Len(sm_results) + Len(sm_ready) <= Len(sm_plan.steps))
    /\ [][(sm_pc = "hybrid" /\ sm_ready' # <<>>)
             => \A k \in 1..Len(sm_ready') :
                    /\ sm_plan.steps[sm_ready'[k]].step \notin sm_completed
                    /\ \A l \in 1..Len(sm_ready') :
                           sm_ready'[l] = sm_ready'[k] => l = k]_vars

\* C39 happens: a hybrid plan whose dependencies can never all be met has
\* run some of its steps and the loop has ended.
C39_Witness ==
    /\ sm_pc = "done"
    /\ sm_plan.execution_type = "hybrid"
    /\ sm_results # <<>>
    /\ Len(sm_results) < Len(sm_plan.steps)

(***************************************************************************)
(* Properties of the discovery                                             *)
(***************************************************************************)

\* C32: an agent whose card cannot be fetched or lacks required fields is
\* recorded with status unavailable, and the discovery of the other
\* endpoints completes: every endpoint has its entry when discovery returns.
C32_UnavailableRecorded ==
    ds_pc = "returned" =>
        \A e \in Endpoints :
            /\ ds_status[e] # "pending"
            /\ ds_cards[e] \in {"fetch_error", "invalid_card"}
                   => ds_status[e] = "unavailable"

====
